---------------------------- MODULE Spec2Model ----------------------------
(***************************************************************************)
(* The projection scan of examples/mesh.py: process() and scan() run by    *)
(* num_devices workers over num_angles tomographic angles.                 *)
(*                                                                         *)
(* Conventions of the model:                                               *)
(*  - a projection (an image) is known by the pose it was rendered at:    *)
(*    within one scan no pose is rendered twice; its summary maximum       *)
(*    (projs[-1].max()) is a natural number 0..MaxVal or NaN;              *)
(*  - the module is Python 2 code: num_angles / num_devices on two ints is *)
(*    floor division (under Python 3 the slice of line 44 raises           *)
(*    TypeError for every input);                                          *)
(*  - lengths are counted in units of psm / shift_coeff relative to the    *)
(*    middle of the field of view, so the point of line 37 is 0 and the    *)
(*    shifted points of line 57 are -1 and +1;                             *)
(*  - angles are whole degrees (np.linspace(0, 360, N, endpoint=False)     *)
(*    truncated).                                                          *)
(***************************************************************************)
EXTENDS Integers, Sequences, FiniteSets, TLC

\* ------------------------------------------------------------------ bounds
MaxAngles == 3
MaxDevices == 2
MaxVal == 2
PartMaxAngles == 10
PartMaxDevices == 4
\* the geometry run alone: the largest coordinate of the bounding box and the
\* largest pixel size
MaxExtent == 10
MaxPixelSize == 2

\* ------------------------------------------------------- values and helpers
\* float('nan'), as np.isnan (line 53) tells it apart from the numbers
NaN == -1
\* Python's None: `last = None` (line 46), `stop = None` (line 43)
None == -2
\* multiprocessing.Lock() when nobody holds it (line 15)
Free == -1
\* --lamino-angle default (line 115), in degrees
LaminoAngle == 5

Values == (0 .. MaxVal) \cup {NaN}

IsNaN(x) == x = NaN

\* IEEE comparison a > b: false as soon as one side is NaN
Gt(a, b) == ~IsNaN(a) /\ ~IsNaN(b) /\ a > b

\* 2 * x in floating point
Twice(x) == IF IsNaN(x) THEN NaN ELSE 2 * x

Min2(a, b) == IF a < b THEN a ELSE b

\* np.linspace(0, 360, n, endpoint=False) (line 93), whole degrees
Linspace(n) == [j \in 1 .. n |-> (360 * (j - 1)) \div n]

\* list(enumerate(angles)) (line 40): pairs <<index, angle>>, indices from 0
Enumerate(angles) == [j \in 1 .. Len(angles) |-> <<j - 1, angles[j]>>]

\* per_device = num_angles / num_devices (line 42), Python 2 integer division
PerDevice(n, w) == n \div w

\* a stop that forgets that the last worker takes the remainder
MutSliceStop(n, w, k) == (k + 1) * PerDevice(n, w)

\* stop of line 43
SliceStop(n, w, k) == IF k = w - 1 THEN None ELSE (k + 1) * PerDevice(n, w)

\* Python's seq[a:b] for a >= 0 and b >= 0 or None: both ends are clipped to
\* the length, an inverted range is empty
PySlice(seq, a, b) ==
    LET lo == Min2(a, Len(seq))
        hi == IF b = None THEN Len(seq) ELSE Min2(b, Len(seq))
    IN  IF hi <= lo THEN <<>> ELSE [j \in 1 .. hi - lo |-> seq[lo + j]]

\* a slice enumerated after it is cut: the indices restart at 0 in each slice
MutMine(angles, w, k) ==
    Enumerate(PySlice(angles,
                      k * PerDevice(Len(angles), w),
                      SliceStop(Len(angles), w, k)))

\* mine of line 44: the pairs <<i, angle>> of worker `k` out of `w`
Mine(angles, w, k) ==
    PySlice(Enumerate(angles),
            k * PerDevice(Len(angles), w),
            SliceStop(Len(angles), w, k))

\* the test with the baseline's presence guarding the NaN check as well
MutIsAnomalousGuarded(m, l) == l # None /\ (Gt(m, Twice(l)) \/ IsNaN(m))

\* the test with a threshold that is not strict
MutIsAnomalousGe(m, l) == (l # None /\ (Gt(m, Twice(l)) \/ m = Twice(l))) \/ IsNaN(m)

\* the test of line 53; `and` binds tighter than `or`
IsAnomalous(m, l) == (l # None /\ Gt(m, Twice(l))) \/ IsNaN(m)

\* np.argmin(max_vals) (line 61), 0-based: the first NaN when there is one
\* (NaN propagates), else the first occurrence of the minimum
ArgMin(vals) ==
    LET nans == {j \in 1 .. Len(vals) : IsNaN(vals[j])}
        least == {j \in 1 .. Len(vals) : \A l \in 1 .. Len(vals) : vals[j] <= vals[l]}
        First(S) == CHOOSE j \in S : \A l \in S : j <= l
    IN  (IF nans # {} THEN First(nans) ELSE First(least)) - 1

\* the shifts in the other order
MutShifts == <<1, -1>>

\* the shifts of line 56, in units of psm / shift_coeff
Shifts == <<-1, 1>>

\* the decimal digits of n, most significant first
RECURSIVE Digits(_)
Digits(n) == IF n < 10 THEN <<n>> ELSE Append(Digits(n \div 10), n % 10)

\* '{:>04}'.format(n): right-aligned, padded with zeros to 4 characters
RECURSIVE PadLeft4(_)
PadLeft4(s) == IF Len(s) >= 4 THEN s ELSE PadLeft4(<<0>> \o s)

\* prefix.format(i) (lines 66, 71, 137): 'projection_{:>04}.tif'
FileName(i) == PadLeft4(Digits(i))

\* ------------------------------------------------------------ mesh pose
\* mesh.clear_transformation() (line 20)
ClearTransformation == <<>>
\* mesh.translate(center) (line 21)
Translate(pose, center) == Append(pose, [op |-> "translate", axis |-> "none", by |-> center])
\* mesh.rotate(angle, axis) (lines 22, 23)
Rotate(pose, angle, axis) == Append(pose, [op |-> "rotate", axis |-> axis, by |-> angle])

\* a make_projection that does not clear the transformation first
MutMakeProjectionPose(old, axis, center, lamino_angle, tomo_angle) ==
    Rotate(Rotate(Translate(old, center), lamino_angle, "X_AX"), tomo_angle, axis)

\* the pose make_projection renders at (lines 20-23); `old` is the pose the
\* mesh was left in
MakeProjectionPose(old, axis, center, lamino_angle, tomo_angle) ==
    Rotate(Rotate(Translate(ClearTransformation, center), lamino_angle, "X_AX"),
           tomo_angle, axis)


\* ------------------------------------------------------------------ state
VARIABLES
    num_devices,   \* args.num_devices
    angles,        \* the angle sequence of line 93; num_angles is its length
    worker,        \* per device index: the locals of process() and scan()
    LOCK,          \* the module's multiprocessing.Lock (line 15): holder or Free
    log,           \* per device index: the records its LOG.info calls emitted
    tail,          \* the emitter and kind of the record emitted last of all
    files,         \* the output directory: the name and data of each file
    written,       \* per device index: the writes it made, in order
    part,          \* the partitioner run alone (SpecPartition)
    cmp,           \* two scans of one renderer side by side (SpecCompare)
    main,          \* where main() is: in the call that runs the scans, or after
    geo            \* process()'s image geometry computed alone (SpecGeometry)

vars == <<num_devices, angles, worker, LOCK, log, tail, files, written, part, cmp, main, geo>>

Workers == 0 .. num_devices - 1

num_angles == Len(angles)

\* the rotation axis, args.rotation_axis (line 117 default)
RotationAxis == "Y_AX"

\* the locals of one call of process(args, device_index) before it starts;
\* projs = <<>> and best = None stand for names not bound yet
InitWorker ==
    [pc |-> "process", header |-> 0, mine |-> <<>>, pos |-> 0, i |-> None,
     angle |-> None, last |-> None, checked_indices |-> <<>>, projs |-> <<>>,
     max_vals |-> <<>>, best |-> None, mesh |-> ClearTransformation,
     error |-> "none"]

\* the number of records process() logs without the lock for device 0
\* (lines 95, 96, 97, 98, 99, 100; a log_attributes call counts as one)
HeaderRecords == 6

\* one log record: who emitted it and what it says
Record(k, kind, a, b, data) ==
    [w |-> k, kind |-> kind, a |-> a, b |-> b, data |-> data]

\* the file system after write_libtiff(name, data) (line 66)
WriteFile(fs, name, data) ==
    {f \in fs : f.name # name} \cup {[name |-> name, data |-> data]}

Names(fs) == {f.name : f \in fs}

Idle == [on |-> FALSE]

NoRecord == [w |-> None, kind |-> "none"]

Init ==
    /\ num_devices \in 1 .. MaxDevices
    /\ angles \in {Linspace(n) : n \in 0 .. MaxAngles}
    /\ worker = [k \in Workers |-> InitWorker]
    /\ LOCK = Free
    /\ log = [k \in Workers |-> <<>>]
    /\ tail = NoRecord
    /\ files = {}
    /\ written = [k \in Workers |-> <<>>]
    /\ part = Idle
    /\ cmp = Idle
    /\ main = "map"
    /\ geo = Idle

Set(k, w) == worker' = [worker EXCEPT ![k] = w]

\* LOG.info(record) by device k
Emit(k, record) ==
    /\ log' = [log EXCEPT ![k] = Append(@, record)]
    /\ tail' = [w |-> k, kind |-> record.kind]

\* ---------------------------------------------------------------- process
\* process(), lines 77-94: the device session, the mesh, the angles
Process(k) ==
    /\ worker[k].pc = "process"
    /\ Set(k, [worker[k] EXCEPT !.pc = IF k = 0 THEN "header" ELSE "scan"])
    /\ UNCHANGED <<num_devices, angles, LOCK, log, tail, files, written, part, cmp, main, geo>>

\* process(), lines 95-100: device 0 logs the run's parameters, LOCK not taken
Header(k) ==
    /\ worker[k].pc = "header"
    /\ Emit(k, Record(k, "header", worker[k].header, HeaderRecords, <<>>))
    /\ Set(k, [worker[k] EXCEPT
                 !.header = @ + 1,
                 !.pc = IF worker[k].header + 1 = HeaderRecords THEN "scan" ELSE "header"])
    /\ UNCHANGED <<num_devices, angles, LOCK, files, written, part, cmp, main, geo>>

\* ------------------------------------------------------------------- scan
\* a loop that stops one pair early
MutForNext(mine, pos) == IF pos + 1 < Len(mine) THEN "render" ELSE "final_acquire"

\* line 48: where the loop goes once `pos` pairs of `mine` are done
ForNext(mine, pos) == IF pos < Len(mine) THEN "render" ELSE "final_acquire"

\* scan(), lines 33-48
ScanStart(k) ==
    /\ worker[k].pc = "scan"
    /\ LET mine == Mine(angles, num_devices, k)
       IN  Set(k, [worker[k] EXCEPT
                     !.mine = mine,
                     !.last = None,
                     !.checked_indices = <<>>,
                     !.pc = ForNext(mine, 0)])
    /\ UNCHANGED <<num_devices, angles, LOCK, log, tail, files, written, part, cmp, main, geo>>

\* a loop that catches the renderer's failure and goes on to the next angle
MutRender(k) ==
    /\ worker[k].pc = "render"
    /\ LET i == worker[k].mine[worker[k].pos + 1][1]
           angle == worker[k].mine[worker[k].pos + 1][2]
           pose == MakeProjectionPose(worker[k].mesh, RotationAxis, 0, LaminoAngle, angle)
           w == [worker[k] EXCEPT !.pos = @ + 1, !.i = i, !.angle = angle, !.mesh = pose]
       IN  \/ \E v \in Values :
                Set(k, [w EXCEPT
                          !.projs = <<pose>>,
                          !.max_vals = <<v>>,
                          !.best = 0,
                          !.checked_indices =
                              IF IsAnomalous(v, w.last) THEN Append(@, i) ELSE @,
                          !.pc = IF IsAnomalous(v, w.last) THEN "shift" ELSE "acquire"])
           \/ Set(k, [w EXCEPT !.error = "render", !.pc = ForNext(w.mine, w.pos)])
    /\ UNCHANGED <<num_devices, angles, LOCK, log, tail, files, written, part, cmp, main, geo>>

\* lines 48-55: the next pair of mine, its unperturbed projection (or the
\* renderer's failure) and the test for faulty pixels
Render(k) ==
    /\ worker[k].pc = "render"
    /\ LET i == worker[k].mine[worker[k].pos + 1][1]
           angle == worker[k].mine[worker[k].pos + 1][2]
           pose == MakeProjectionPose(worker[k].mesh, RotationAxis, 0, LaminoAngle, angle)
           w == [worker[k] EXCEPT !.pos = @ + 1, !.i = i, !.angle = angle, !.mesh = pose]
       IN  \/ \E v \in Values :
                Set(k, [w EXCEPT
                          !.projs = <<pose>>,
                          !.max_vals = <<v>>,
                          !.best = 0,
                          !.checked_indices =
                              IF IsAnomalous(v, w.last) THEN Append(@, i) ELSE @,
                          !.pc = IF IsAnomalous(v, w.last) THEN "shift" ELSE "acquire"])
           \/ Set(k, [w EXCEPT !.error = "render", !.pc = "raised"])
    /\ UNCHANGED <<num_devices, angles, LOCK, log, tail, files, written, part, cmp, main, geo>>

\* lines 56-61: one turn of the loop over the shifts; after the last one,
\* the choice of the best candidate
RenderShifted(k) ==
    /\ worker[k].pc = "shift"
    /\ LET shift == Shifts[Len(worker[k].projs)]
           pose == MakeProjectionPose(worker[k].mesh, RotationAxis, 0 + shift,
                                      LaminoAngle, worker[k].angle)
           more == Len(worker[k].projs) < Len(Shifts)
       IN  \/ \E v \in Values :
                Set(k, [worker[k] EXCEPT
                          !.mesh = pose,
                          !.projs = Append(@, pose),
                          !.max_vals = Append(@, v),
                          !.best = IF more THEN @
                                   ELSE ArgMin(Append(worker[k].max_vals, v)),
                          !.pc = IF more THEN "shift" ELSE "acquire"])
           \/ Set(k, [worker[k] EXCEPT
                        !.mesh = pose, !.error = "render", !.pc = "raised"])
    /\ UNCHANGED <<num_devices, angles, LOCK, log, tail, files, written, part, cmp, main, geo>>

\* line 63, entering `with LOCK`
Acquire(k) ==
    /\ worker[k].pc = "acquire"
    /\ LOCK = Free
    /\ LOCK' = k
    /\ Set(k, [worker[k] EXCEPT !.pc = "info"])
    /\ UNCHANGED <<num_devices, angles, log, tail, files, written, part, cmp, main, geo>>

\* a progress record that counts within the worker's own slice
MutProgressRecordOfSlice(k) ==
    Record(k, "progress", worker[k].pos, Len(worker[k].mine),
           [angle |-> worker[k].angle, maxima |-> worker[k].max_vals])

\* a progress record that lists the maximum of the chosen candidate only
MutProgressRecord(k) ==
    Record(k, "progress", worker[k].i + 1, num_angles,
           [angle |-> worker[k].angle,
            maxima |-> <<worker[k].max_vals[worker[k].best + 1]>>])

\* the progress record of lines 64-65 (the duration left out)
ProgressRecord(k) ==
    Record(k, "progress", worker[k].i + 1, num_angles,
           [angle |-> worker[k].angle, maxima |-> worker[k].max_vals])

\* lines 64-65
Info(k) ==
    /\ worker[k].pc = "info"
    /\ Emit(k, ProgressRecord(k))
    /\ Set(k, [worker[k] EXCEPT !.pc = "release"])
    /\ UNCHANGED <<num_devices, angles, LOCK, files, written, part, cmp, main, geo>>

\* leaving the `with LOCK` of line 63
Release(k) ==
    /\ worker[k].pc = "release"
    /\ LOCK' = Free
    /\ Set(k, [worker[k] EXCEPT !.pc = "write"])
    /\ UNCHANGED <<num_devices, angles, log, tail, files, written, part, cmp, main, geo>>

\* a write named after the position in the worker's own slice
MutPersisted(k) ==
    [name |-> FileName(worker[k].pos - 1), data |-> worker[k].projs[worker[k].best + 1]]

\* what line 66 writes: the name and the data
Persisted(k) ==
    [name |-> FileName(worker[k].i), data |-> worker[k].projs[worker[k].best + 1]]

\* a baseline taken from the unperturbed projection whatever was written
MutWrite(k) ==
    /\ worker[k].pc = "write"
    /\ files' = WriteFile(files, Persisted(k).name, Persisted(k).data)
    /\ written' = [written EXCEPT ![k] = Append(@, Persisted(k))]
    /\ Set(k, [worker[k] EXCEPT
                 !.last = worker[k].max_vals[1],
                 !.pc = ForNext(worker[k].mine, worker[k].pos)])
    /\ UNCHANGED <<num_devices, angles, LOCK, log, tail, part, cmp, main, geo>>

\* lines 66-67, and the loop's next turn or end (line 48)
Write(k) ==
    /\ worker[k].pc = "write"
    /\ files' = WriteFile(files, Persisted(k).name, Persisted(k).data)
    /\ written' = [written EXCEPT ![k] = Append(@, Persisted(k))]
    /\ Set(k, [worker[k] EXCEPT
                 !.last = worker[k].max_vals[worker[k].best + 1],
                 !.pc = ForNext(worker[k].mine, worker[k].pos)])
    /\ UNCHANGED <<num_devices, angles, LOCK, log, tail, part, cmp, main, geo>>

\* line 69, entering `with LOCK`
FinalAcquire(k) ==
    /\ worker[k].pc = "final_acquire"
    /\ LOCK = Free
    /\ LOCK' = k
    /\ Set(k, [worker[k] EXCEPT !.pc = "final_checked"])
    /\ UNCHANGED <<num_devices, angles, log, tail, files, written, part, cmp, main, geo>>

\* line 70
FinalChecked(k) ==
    /\ worker[k].pc = "final_checked"
    /\ Emit(k, Record(k, "checked", 0, 0, worker[k].checked_indices))
    /\ Set(k, [worker[k] EXCEPT !.pc = "final_files"])
    /\ UNCHANGED <<num_devices, angles, LOCK, files, written, part, cmp, main, geo>>

\* output identifiers counted from the start of the list of checked indices
MutFinalFiles(k) ==
    /\ worker[k].pc = "final_files"
    /\ Emit(k, Record(k, "files", 0, 0,
                      [j \in 1 .. Len(worker[k].checked_indices) |-> FileName(j - 1)]))
    /\ Set(k, [worker[k] EXCEPT !.pc = "final_release"])
    /\ UNCHANGED <<num_devices, angles, LOCK, files, written, part, cmp, main, geo>>

\* line 71
FinalFiles(k) ==
    /\ worker[k].pc = "final_files"
    /\ Emit(k, Record(k, "files", 0, 0,
                      [j \in 1 .. Len(worker[k].checked_indices) |->
                         FileName(worker[k].checked_indices[j])]))
    /\ Set(k, [worker[k] EXCEPT !.pc = "final_release"])
    /\ UNCHANGED <<num_devices, angles, LOCK, files, written, part, cmp, main, geo>>

\* leaving the `with LOCK` of line 69
FinalRelease(k) ==
    /\ worker[k].pc = "final_release"
    /\ LOCK' = Free
    /\ Set(k, [worker[k] EXCEPT !.pc = "return"])
    /\ UNCHANGED <<num_devices, angles, log, tail, files, written, part, cmp, main, geo>>

\* line 73: projs and best are bound only once the loop body has run
Return(k) ==
    /\ worker[k].pc = "return"
    /\ IF worker[k].projs = <<>>
       THEN Set(k, [worker[k] EXCEPT !.error = "UnboundLocalError", !.pc = "raised"])
       ELSE Set(k, [worker[k] EXCEPT !.pc = "done"])
    /\ UNCHANGED <<num_devices, angles, LOCK, log, tail, files, written, part, cmp, main, geo>>

\* ------------------------------------------------------------------- main
\* lines 146-155: process(args, 0) called in line (line 148), or
\* Pool.map(exec_func, range(num_devices)) (lines 153-155), has returned:
\* every call of process has
MainReturn ==
    /\ main = "map"
    /\ \A k \in Workers : worker[k].pc = "done"
    /\ main' = "returned"
    /\ UNCHANGED <<num_devices, angles, worker, LOCK, log, tail, files, written,
                   part, cmp, geo>>

\* the same call raises what a call of process raised; Pool.map does so as
\* soon as the first failed call reports, while the other calls still run
MainRaise ==
    /\ main = "map"
    /\ \E k \in Workers : worker[k].pc = "raised"
    /\ main' = "raised"
    /\ UNCHANGED <<num_devices, angles, worker, LOCK, log, tail, files, written,
                   part, cmp, geo>>

Next ==
    \/ MainReturn
    \/ MainRaise
    \/ \E k \in Workers : Process(k)
    \/ \E k \in Workers : Header(k)
    \/ \E k \in Workers : ScanStart(k)
    \/ \E k \in Workers : Render(k)
    \/ \E k \in Workers : RenderShifted(k)
    \/ \E k \in Workers : Acquire(k)
    \/ \E k \in Workers : Info(k)
    \/ \E k \in Workers : Release(k)
    \/ \E k \in Workers : Write(k)
    \/ \E k \in Workers : FinalAcquire(k)
    \/ \E k \in Workers : FinalChecked(k)
    \/ \E k \in Workers : FinalFiles(k)
    \/ \E k \in Workers : FinalRelease(k)
    \/ \E k \in Workers : Return(k)

Spec == Init /\ [][Next]_vars

\* ------------------------------------------------- the partitioner alone
\* the indices of a list of pairs <<i, angle>>
Indices(pairs) == [j \in 1 .. Len(pairs) |-> pairs[j][1]]

\* no worker runs: the state of the scan's variables in the two
\* specifications below
NoScan ==
    /\ num_devices = 0
    /\ angles = <<>>
    /\ worker = <<>>
    /\ LOCK = Free
    /\ log = <<>>
    /\ tail = NoRecord
    /\ files = {}
    /\ written = <<>>
    /\ main = "none"

InitPartition ==
    /\ NoScan
    /\ geo = Idle
    /\ cmp = Idle
    /\ \E n \in 0 .. PartMaxAngles, w \in 1 .. PartMaxDevices :
          part = [on |-> TRUE, n |-> n, w |-> w, k |-> 0, slices |-> <<>>]

\* lines 40-44 for the next device index: the indices of its `mine`
Partition ==
    /\ part.on
    /\ part.k < part.w
    /\ part' = [part EXCEPT
                  !.k = @ + 1,
                  !.slices = Append(@, Indices(Mine(Linspace(part.n), part.w, part.k)))]
    /\ UNCHANGED <<num_devices, angles, worker, LOCK, log, tail, files, written, cmp, main, geo>>

SpecPartition == InitPartition /\ [][Partition]_vars

\* ------------------------------- two scans of one deterministic renderer
\* The body of scan's loop (lines 48-67) for the pair <<i, angle>> with the
\* rolling baseline `last`, when the renderer yields the maxima m[1], m[2],
\* m[3] for the unperturbed and the two shifted poses of this angle and
\* does not fail: the test's verdict, what is written, the new baseline.
ScanAngle(last, i, angle, m) ==
    LET pose0 == MakeProjectionPose(ClearTransformation, RotationAxis, 0,
                                    LaminoAngle, angle)
        flagged == IsAnomalous(m[1], last)
        shifted == [j \in 1 .. Len(Shifts) |->
                      MakeProjectionPose(ClearTransformation, RotationAxis,
                                         0 + Shifts[j], LaminoAngle, angle)]
        projs == IF flagged THEN <<pose0>> \o shifted ELSE <<pose0>>
        max_vals == IF flagged THEN m ELSE <<m[1]>>
        best == IF flagged THEN ArgMin(max_vals) ELSE 0
    IN  [flagged |-> flagged,
         file |-> [name |-> FileName(i), data |-> projs[best + 1]],
         last |-> max_vals[best + 1]]

\* the pairs of all the device indices 0 .. w-1 one after the other, each
\* with whether it is the first of its worker's `mine` (where last is None)
RECURSIVE Items(_, _, _)
Items(a, w, k) ==
    IF k = w THEN <<>>
    ELSE LET mine == Mine(a, w, k)
         IN  [j \in 1 .. Len(mine) |->
                [i |-> mine[j][1], angle |-> mine[j][2], first |-> j = 1]]
             \o Items(a, w, k + 1)

NoRun == [last |-> None, files |-> {}, checked |-> {}]

InitCompare ==
    /\ NoScan
    /\ geo = Idle
    /\ part = Idle
    /\ \E n \in 0 .. MaxAngles, w \in 1 .. MaxDevices :
          cmp = [on |-> TRUE, a |-> Linspace(n), w |-> w, g |-> 0,
                 one |-> NoRun, many |-> NoRun]

\* one more angle for a scan that runs alone (`one`, num_devices = 1) or as
\* one of w workers (`many`): the loop body, then the write of line 66
Advance(run, item, m) ==
    LET r == ScanAngle(IF item.first THEN None ELSE run.last, item.i, item.angle, m)
    IN  [last |-> r.last,
         files |-> WriteFile(run.files, r.file.name, r.file.data),
         checked |-> IF r.flagged THEN run.checked \cup {item.i} ELSE run.checked]

\* the renderer's maxima at the poses of the next angle, and both scans' turn
\* of the loop for it
Compare ==
    /\ cmp.on
    /\ cmp.g < Len(cmp.a)
    /\ \E m \in [1 .. 1 + Len(Shifts) -> Values] :
          cmp' = [cmp EXCEPT
                    !.g = @ + 1,
                    !.one = Advance(@, Items(cmp.a, 1, 0)[cmp.g + 1], m),
                    !.many = Advance(@, Items(cmp.a, cmp.w, 0)[cmp.g + 1], m)]
    /\ UNCHANGED <<num_devices, angles, worker, LOCK, log, tail, files, written, part, main, geo>>

SpecCompare == InitCompare /\ [][Compare]_vars

\* ------------------------------------------- the image geometry alone
\* process(), lines 88-92, as a function of the mesh's bounding extrema, the
\* pixel size and the requested number of projections. Lengths are whole
\* numbers of one unit; the factor 1.1 is 11/10 and pi is PiNum/PiDen, which
\* give what the doubles of the code give for every extent and n used here
\* (1.1 * e rounds away from the exact product first at e = 50).
PiNum == 314159
PiDen == 100000

\* np.ceil(a / b) for a >= 0, b > 0
CeilDiv(a, b) == (a + b - 1) \div b

\* int(a / b) for a >= 0, b > 0: truncation
IntDiv(a, b) == a \div b

RECURSIVE MaxOf(_)
MaxOf(seq) ==
    IF Len(seq) = 1 THEN seq[1]
    ELSE LET m == MaxOf(Tail(seq)) IN IF seq[1] > m THEN seq[1] ELSE m

\* line 88, in tenths of the unit: max over mesh.extrema[1:] of the extent,
\* times 1.1
FovTenths(extrema) ==
    MaxOf([j \in 1 .. Len(extrema) - 1 |-> extrema[j + 1][2] - extrema[j + 1][1]]) * 11

\* line 89
Resolution(extrema, pixel_size) == CeilDiv(FovTenths(extrema), 10 * pixel_size)

\* a projection count rounded up
MutNumProjs(n, num_projections) ==
    IF num_projections = None THEN CeilDiv(PiNum * n, PiDen) ELSE num_projections

\* line 92
NumProjs(n, num_projections) ==
    IF num_projections = None THEN IntDiv(PiNum * n, PiDen) ELSE num_projections

\* the (lo, hi) pairs of one axis of the bounding box
Ends == {e \in (0 .. 1) \X (0 .. MaxExtent) : e[1] <= e[2]}

InitGeometry ==
    /\ NoScan
    /\ part = Idle
    /\ cmp = Idle
    /\ \E extrema \in [1 .. 3 -> Ends], ps \in 1 .. MaxPixelSize,
          num_projections \in {None} \cup (0 .. MaxAngles) :
          geo = [on |-> TRUE, extrema |-> extrema, pixel_size |-> ps,
                 num_projections |-> num_projections, done |-> FALSE,
                 n |-> None, shape |-> <<None, None>>, num_projs |-> None]

\* lines 88-92
Geometry ==
    /\ geo.on
    /\ ~geo.done
    /\ LET n == Resolution(geo.extrema, geo.pixel_size)
       IN  geo' = [geo EXCEPT
                     !.done = TRUE,
                     !.n = n,
                     !.shape = <<n, n>>,
                     !.num_projs = NumProjs(n, geo.num_projections)]
    /\ UNCHANGED <<num_devices, angles, worker, LOCK, log, tail, files, written,
                   part, cmp, main>>

SpecGeometry == InitGeometry /\ [][Geometry]_vars

\* ============================================================== properties
\* the half-open range [a, b) as the sequence a, a+1, ..., b-1
Range(a, b) == [j \in 1 .. (IF b > a THEN b - a ELSE 0) |-> a + j - 1]

RECURSIVE Concat(_)
Concat(ss) == IF ss = <<>> THEN <<>> ELSE Head(ss) \o Concat(Tail(ss))

Elements(seq) == {seq[j] : j \in 1 .. Len(seq)}

\* the start and stop the specification gives worker k of w over n angles
SpecStart(n, w, k) == k * (n \div w)
SpecStop(n, w, k) == IF k = w - 1 THEN n ELSE (k + 1) * (n \div w)

\* C1: for N >= 0 angles and W >= 1 workers the slices of the workers
\* 0..W-1 are the ranges [k*floor(N/W), (k+1)*floor(N/W)), the last one
\* reaching N; taken in the order of k they are contiguous and disjoint, and
\* once all W are computed they cover 0..N-1, each index exactly once.
C1_SlicesTile ==
    part.on =>
        /\ \A j \in 1 .. Len(part.slices) :
              part.slices[j] = Range(SpecStart(part.n, part.w, j - 1),
                                     SpecStop(part.n, part.w, j - 1))
        /\ \E m \in 0 .. part.n : Concat(part.slices) = Range(0, m)
        /\ part.k = part.w => Concat(part.slices) = Range(0, part.n)

C1_Witness ==
    /\ part.on
    /\ part.n = 10 /\ part.w = 3 /\ part.k = 3
    /\ part.slices = <<Range(0, 3), Range(3, 6), Range(6, 10)>>

\* every worker has returned from scan without an error
AllDone == \A k \in Workers : worker[k].pc = "done"

\* all the writes made so far, as pairs of the worker and the position
Writes == {<<k, j>> \in Workers \X (1 .. MaxAngles + 1) : j <= Len(written[k])}

\* C2: every write of worker k is under the name of a global index of its
\* own slice (its j-th write under index start_k + j - 1, not under j - 1),
\* no name is written twice, by one worker or by two, and once all workers
\* are done the written names are those of 0..N-1, one write each.
C2_EachIndexOnce ==
    /\ \A x \in Writes :
          written[x[1]][x[2]].name =
              FileName(SpecStart(num_angles, num_devices, x[1]) + x[2] - 1)
    /\ \A x, y \in Writes :
          written[x[1]][x[2]].name = written[y[1]][y[2]].name => x = y
    /\ AllDone =>
          /\ Names(files) = {FileName(i) : i \in 0 .. num_angles - 1}
          /\ Cardinality(Writes) = num_angles

C2_Witness ==
    /\ num_devices = 2
    /\ num_angles = 3
    /\ AllDone
    /\ Len(written[0]) = 1 /\ Len(written[1]) = 2

\* the file of index i in a file system, or the empty set
FileOf(fs, i) == {f \in fs : f.name = FileName(i)}

\* C3 as stated: with a deterministic renderer, the scan with one worker and
\* the scan with W workers persist the same candidate under every index.
C3_SameCandidates ==
    cmp.on => cmp.one.files = cmp.many.files

\* C3 as amended: both scans write the same names, the names of the indices
\* done so far; under an index the anomaly test decided alike in both scans
\* the same candidate is persisted; and in the slice of worker 0 the test
\* decides alike.
C3_SameWhereTestAgrees ==
    cmp.on =>
        /\ Names(cmp.one.files) = {FileName(i) : i \in 0 .. cmp.g - 1}
        /\ Names(cmp.many.files) = Names(cmp.one.files)
        /\ \A i \in 0 .. cmp.g - 1 :
              /\ (i \in cmp.one.checked) = (i \in cmp.many.checked)
                    => FileOf(cmp.one.files, i) = FileOf(cmp.many.files, i)
              /\ (cmp.w = 1 \/ i < SpecStop(Len(cmp.a), cmp.w, 0))
                    => (i \in cmp.one.checked) = (i \in cmp.many.checked)

C3_Witness ==
    /\ cmp.on
    /\ cmp.w = 2 /\ Len(cmp.a) = 3 /\ cmp.g = 3
    /\ 2 \in cmp.one.checked /\ 2 \in cmp.many.checked
    /\ FileOf(cmp.one.files, 2) = FileOf(cmp.many.files, 2)
    /\ 1 \in cmp.one.checked /\ 1 \notin cmp.many.checked
    /\ FileOf(cmp.one.files, 1) # FileOf(cmp.many.files, 1)

\* the progress records a worker emitted, in order
ProgressOf(k) == SelectSeq(log[k], LAMBDA r : r.kind = "progress")

\* the worker has an angle in hand and the test of line 53 is behind it
AfterTest(k) == worker[k].pc \in {"shift", "acquire", "info", "release", "write"}

\* the worker has an angle in hand with all its candidates rendered and the
\* best one chosen
Selected(k) == worker[k].pc \in {"acquire", "info", "release", "write"}

\* the angle in hand was flagged: its index was appended to checked_indices
Flagged(k) == worker[k].i \in Elements(worker[k].checked_indices)

C5_FlaggedIffSpikeOrNaN ==
    \A k \in Workers :
        (AfterTest(k) /\ worker[k].last # None) =>
            (Flagged(k) <=>
                \/ worker[k].max_vals[1] = NaN
                \/ /\ worker[k].last # NaN
                   /\ worker[k].max_vals[1] > 2 * worker[k].last)

C5_Witness ==
    \E k \in Workers :
        /\ AfterTest(k) /\ worker[k].pos = 3
        /\ ProgressOf(k)[1].data.maxima = <<0>>
        /\ ProgressOf(k)[2].data.maxima[1] = 1
        /\ worker[k].checked_indices = <<worker[k].mine[2][1]>>
        /\ worker[k].last = 1 /\ worker[k].max_vals[1] = 2
        /\ ~Flagged(k)

\* the centre a pose was translated to and the tomographic angle it was
\* rotated by
CenterOf(pose) == pose[1].by
TomoOf(pose) == pose[3].by

C7_SmallestPersisted ==
    \A k \in Workers :
        (worker[k].pc = "write" /\ Flagged(k)) =>
            LET v == worker[k].max_vals
                b == CHOOSE j \in 1 .. 3 : worker[k].projs[j] = Persisted(k).data
            IN  \A j \in 1 .. 3 :
                    v[j] # NaN => /\ v[b] # NaN
                                  /\ v[b] <= v[j]
                                  /\ (j < b => v[j] # v[b])

\* the worker's slice is empty and it is past line 48
EmptySlice(k) ==
    /\ worker[k].pc \notin {"process", "header", "scan"}
    /\ worker[k].mine = <<>>

\* C8: a worker whose slice is empty ends scan normally: it raises nothing.
C8_EmptySliceCompletes ==
    \A k \in Workers : EmptySlice(k) => worker[k].pc # "raised"

\* the worker is between entering and leaving a `with LOCK`
InCritical(k) ==
    worker[k].pc \in {"info", "release", "final_checked", "final_files", "final_release"}

\* C9: at most one worker is in a `with LOCK` at a time and the lock is held
\* exactly there, never while rendering or writing; no worker emits a record
\* while another one holds the lock; the second line of a final record
\* follows its first line with no record of anyone in between.
C9_LogMutex ==
    /\ [](/\ \A k, l \in Workers : (InCritical(k) /\ InCritical(l)) => k = l
          /\ \A k \in Workers : InCritical(k) <=> LOCK = k)
    /\ [][\A k \in Workers :
            log'[k] # log[k] =>
                /\ LOCK \in {k, Free}
                /\ log'[k][Len(log'[k])].kind = "files"
                      => tail = [w |-> k, kind |-> "checked"]]_vars

\* the indices of the first n pairs of a worker's slice
Done(k, n) == [j \in 1 .. n |-> worker[k].mine[j][1]]

\* C10: a worker whose render failed at index i (its pos-th pair) has written
\* exactly the indices before i of its slice and these files are still in
\* place, has emitted the progress records of exactly these indices, and no
\* final record; it has stopped for good.
C10_RenderFailureStops ==
    \A k \in Workers :
        worker[k].error = "render" =>
            /\ worker[k].pc = "raised"
            /\ [j \in 1 .. Len(written[k]) |-> written[k][j].name]
                  = [j \in 1 .. worker[k].pos - 1 |-> FileName(Done(k, worker[k].pos - 1)[j])]
            /\ \A j \in 1 .. Len(written[k]) : written[k][j] \in files
            /\ [j \in 1 .. Len(ProgressOf(k)) |-> ProgressOf(k)[j].a - 1]
                  = Done(k, worker[k].pos - 1)
            /\ \A j \in 1 .. Len(log[k]) : log[k][j].kind \in {"header", "progress"}

C10_Witness ==
    \E k \in Workers :
        /\ worker[k].error = "render"
        /\ worker[k].pos = 2
        /\ Flagged(k)
        /\ Len(worker[k].projs) = 2
        /\ Len(written[k]) = 1
        /\ written[k][1] \in files

\* no call of the renderer has failed
NoRenderFailure == \A k \in Workers : worker[k].error # "render"

\* C11: main runs one scan per device index 0 .. num_devices-1; main returns
\* only once all of them are done; and a run in which no render fails does
\* not come to rest (by a deadlock on LOCK or otherwise) before every scan
\* is done and main has returned.
C11_EveryScanDone ==
    /\ DOMAIN worker = 0 .. num_devices - 1
    /\ main = "returned" => AllDone
    /\ (NoRenderFailure /\ ~ENABLED Next) => (AllDone /\ main = "returned")

\* the bounding box of the spec's end-to-end scenario
ScenarioExtrema == <<(<<0, 10>>), (<<0, 10>>), (<<0, 5>>)>>

\* the extent of axis j of the bounding box
Extent(j) == geo.extrema[j][2] - geo.extrema[j][1]

\* the resolution of geo: the least n with n * pixel_size >= 1.1 * the larger
\* extent of the axes after the first
ResolutionHolds ==
    LET e == IF Extent(2) > Extent(3) THEN Extent(2) ELSE Extent(3)
    IN  /\ 10 * geo.pixel_size * geo.n >= 11 * e
        /\ geo.n > 0 => 10 * geo.pixel_size * (geo.n - 1) < 11 * e
        /\ geo.shape = <<geo.n, geo.n>>

CandidateOf(pose) ==
    IF CenterOf(pose) = 0 THEN 1
    ELSE 1 + CHOOSE j \in 1 .. Len(Shifts) : 0 + Shifts[j] = CenterOf(pose)

\* the summary maximum of the projection worker k wrote j-th, as its progress
\* record of that angle lists it
PersistedMax(k, j) ==
    ProgressOf(k)[j].data.maxima[CandidateOf(written[k][j].data)]

\* C13: the baseline `last` of a worker is absent until the worker has
\* written its first projection and is from then on the summary maximum of
\* the projection it wrote last; so the baseline of the test at an angle is
\* that of the candidate written for the index just before it in the same
\* slice, and absent at the first angle of the slice.
C13_BaselineIsLastPersisted ==
    \A k \in Workers :
        /\ worker[k].last =
              IF Len(written[k]) = 0 THEN None
              ELSE PersistedMax(k, Len(written[k]))
        /\ AfterTest(k) =>
              /\ Len(written[k]) = worker[k].pos - 1
              /\ worker[k].pos >= 2 =>
                    /\ written[k][worker[k].pos - 1].name = FileName(worker[k].i - 1)
                    /\ worker[k].i - 1 = worker[k].mine[worker[k].pos - 1][1]
                    /\ worker[k].last # None

C13_Witness ==
    \E k \in Workers :
        /\ AfterTest(k)
        /\ worker[k].pos = 3
        /\ worker[k].i - 1 \in Elements(worker[k].checked_indices)
        /\ CandidateOf(written[k][2].data) = 3
        /\ worker[k].last = ProgressOf(k)[2].data.maxima[3]
        /\ worker[k].last # ProgressOf(k)[2].data.maxima[1]

\* the worker has emitted the progress record of the angle in hand and has
\* not written the angle's projection yet
Recorded(k) == worker[k].pc \in {"release", "write"}

\* C14: a worker has emitted one progress record per projection it has
\* written, in the same order, and one more exactly while it is between the
\* record and the write of the angle in hand: the record comes after the
\* angle's last render and before its write. The record of an angle lists
\* the maxima of all the candidates rendered for it, 1 + Len(Shifts) of
\* them when the angle was flagged and 1 otherwise.
C14_OneRecordPerAngle ==
    \A k \in Workers :
        LET P == ProgressOf(k)
        IN  /\ Len(P) = Len(written[k]) + (IF Recorded(k) THEN 1 ELSE 0)
            /\ AfterTest(k) =>
                  Len(P) = IF Recorded(k) THEN worker[k].pos ELSE worker[k].pos - 1
            /\ \A j \in 1 .. Len(P) :
                  /\ P[j].a - 1 = worker[k].mine[j][1]
                  /\ P[j].data.angle = worker[k].mine[j][2]
                  /\ Len(P[j].data.maxima) =
                        IF worker[k].mine[j][1] \in Elements(worker[k].checked_indices)
                        THEN 1 + Len(Shifts) ELSE 1
            /\ Recorded(k) =>
                  /\ P[Len(P)].data.maxima = worker[k].max_vals
                  /\ Len(worker[k].max_vals) = Len(worker[k].projs)

C14_Witness ==
    \E k \in Workers :
        /\ worker[k].pc = "write"
        /\ worker[k].pos = 2
        /\ Flagged(k)
        /\ Len(ProgressOf(k)) = 2
        /\ Len(written[k]) = 1
        /\ Len(ProgressOf(k)[1].data.maxima) = 1
        /\ Len(ProgressOf(k)[2].data.maxima) = 3
        /\ ProgressOf(k)[2].data.maxima = worker[k].max_vals

\* C15 as stated: the progress record of worker k for the global index i
\* reports the position i - start + 1 out of stop - start, where
\* [start, stop) is the slice of k.
C15_PositionWithinSlice ==
    \A k \in Workers :
        \A j \in 1 .. Len(ProgressOf(k)) :
            LET start == SpecStart(num_angles, num_devices, k)
                stop == SpecStop(num_angles, num_devices, k)
            IN  /\ ProgressOf(k)[j].a = worker[k].mine[j][1] - start + 1
                /\ ProgressOf(k)[j].b = stop - start

\* C15, amended: the progress record for the global index i reports i + 1
\* out of num_angles, the number of angles of the whole scan, whatever the
\* worker and its slice; it also names the worker.
C15_GlobalPosition ==
    \A k \in Workers :
        \A j \in 1 .. Len(ProgressOf(k)) :
            /\ ProgressOf(k)[j].w = k
            /\ ProgressOf(k)[j].a = worker[k].mine[j][1] + 1
            /\ ProgressOf(k)[j].b = num_angles

C15_Witness ==
    \E k \in Workers :
        /\ k > 0
        /\ Len(ProgressOf(k)) = 2
        /\ Len(worker[k].mine) = 2
        /\ ProgressOf(k)[1].a = 2
        /\ ProgressOf(k)[2].a = 3
        /\ ProgressOf(k)[2].b = 3

\* the records of one kind in the log of worker k
OfKind(k, kind) == SelectSeq(log[k], LAMBDA r : r.kind = kind)

\* the indices of worker k's slice whose progress record lists the maxima of
\* shifted candidates: the flagged ones
FlaggedIndices(k) ==
    {worker[k].mine[j][1] : j \in {l \in 1 .. Len(ProgressOf(k)) :
                                      Len(ProgressOf(k)[l].data.maxima) > 1}}

\* worker k is past line 70, past line 71
PastChecked(k) ==
    \/ worker[k].pc \in {"final_files", "final_release", "return", "done"}
    \/ worker[k].pc = "raised" /\ worker[k].error = "UnboundLocalError"
PastFiles(k) == PastChecked(k) /\ worker[k].pc # "final_files"

\* C16: a worker emits the two lines of its final record once each and only
\* after the loop, i.e. after the progress record and the write of every
\* angle of its slice, and they are the last records of its log. The first
\* line lists exactly the flagged indices of the slice, strictly increasing;
\* the second the file names of exactly these indices, in the same order,
\* and these files exist.
C16_FinalRecordOnce ==
    \A k \in Workers :
        LET n == Len(log[k])
            checked == OfKind(k, "checked")
            names == OfKind(k, "files")
        IN  /\ Len(checked) = (IF PastChecked(k) THEN 1 ELSE 0)
            /\ Len(names) = (IF PastFiles(k) THEN 1 ELSE 0)
            /\ PastChecked(k) =>
                  /\ Len(ProgressOf(k)) = Len(worker[k].mine)
                  /\ Len(written[k]) = Len(worker[k].mine)
                  /\ log[k][IF PastFiles(k) THEN n - 1 ELSE n].kind = "checked"
                  /\ Elements(checked[1].data) = FlaggedIndices(k)
                  /\ \A a, b \in 1 .. Len(checked[1].data) :
                        a < b => checked[1].data[a] < checked[1].data[b]
            /\ PastFiles(k) =>
                  /\ log[k][n].kind = "files"
                  /\ names[1].data =
                        [j \in 1 .. Len(checked[1].data) |-> FileName(checked[1].data[j])]
                  /\ Elements(names[1].data) \subseteq Names(files)

C16_Witness ==
    \E k \in Workers :
        /\ worker[k].pc = "done"
        /\ OfKind(k, "checked")[1].data = <<1, 2>>
        /\ OfKind(k, "files")[1].data = <<FileName(1), FileName(2)>>
        /\ FlaggedIndices(k) = {1, 2}

\* worker k has left the loop of line 48 by its end
PastLoop(k) ==
    worker[k].pc \in {"final_acquire", "final_checked", "final_files",
                      "final_release", "return", "done"}

\* C17: a worker takes the pairs of its slice one by one in the slice's
\* order, which is that of increasing global index: pos advances by one and
\* only when a pair's unperturbed render starts, and by then the progress
\* record, the write and the baseline of every earlier pair are in place;
\* what it has written is at all times the run of indices from its slice's
\* first one on, each once, and the whole slice when the loop has ended.
C17_Sequential ==
    /\ [](\A k \in Workers :
            /\ \A j \in 1 .. Len(worker[k].mine) - 1 :
                  worker[k].mine[j + 1][1] = worker[k].mine[j][1] + 1
            /\ [j \in 1 .. Len(written[k]) |-> written[k][j].name]
                  = [j \in 1 .. Len(written[k]) |-> FileName(worker[k].mine[j][1])]
            /\ worker[k].pc = "render" =>
                  /\ Len(written[k]) = worker[k].pos
                  /\ Len(ProgressOf(k)) = worker[k].pos
                  /\ worker[k].pos >= 1 =>
                        worker[k].last = PersistedMax(k, worker[k].pos)
            /\ AfterTest(k) =>
                  /\ worker[k].i = worker[k].mine[worker[k].pos][1]
                  /\ Len(written[k]) = worker[k].pos - 1
            /\ PastLoop(k) =>
                  /\ worker[k].pos = Len(worker[k].mine)
                  /\ Len(written[k]) = Len(worker[k].mine))
    /\ [][\A k \in Workers :
            \/ worker'[k].pos = worker[k].pos
            \/ /\ worker'[k].pos = worker[k].pos + 1
               /\ worker[k].pc = "render"
               /\ worker'[k].mine = worker[k].mine]_vars

C17_Witness ==
    \E k \in Workers :
        /\ worker[k].pc = "render"
        /\ worker[k].pos = 2
        /\ Len(worker[k].mine) = 3
        /\ Len(written[k]) = 2
        /\ written[k][2].name = FileName(worker[k].mine[1][1] + 1)
        /\ worker[k].last = PersistedMax(k, 2)

\* the pose reached from the identity by the three steps of make_projection
\* for the arguments of scan's calls
PoseFromIdentity(center, angle) ==
    <<[op |-> "translate", axis |-> "none", by |-> center],
      [op |-> "rotate", axis |-> "X_AX", by |-> LaminoAngle],
      [op |-> "rotate", axis |-> RotationAxis, by |-> angle]>>

\* the center of the j-th candidate of an angle
CenterOfCandidate(j) == IF j = 1 THEN 0 ELSE 0 + Shifts[j - 1]

\* C18: every projection is rendered at the pose that the arguments of its
\* make_projection call give from the identity (translate to the center,
\* rotate by the laminographic angle, rotate by the tomographic angle),
\* whatever pose the mesh was left in: the candidates of the angle in hand,
\* the projections written, and the pose the mesh is left in by any render.
C18_PoseFromIdentity ==
    \A k \in Workers :
        /\ AfterTest(k) =>
              \A j \in 1 .. Len(worker[k].projs) :
                  worker[k].projs[j] = PoseFromIdentity(CenterOfCandidate(j), worker[k].angle)
        /\ \A j \in 1 .. Len(written[k]) :
              \E c \in 1 .. 1 + Len(Shifts) :
                  written[k][j].data = PoseFromIdentity(CenterOfCandidate(c),
                                                        worker[k].mine[j][2])
        /\ \/ worker[k].mesh = ClearTransformation /\ worker[k].pos = 0
           \/ \E c \in 1 .. 1 + Len(Shifts) :
                  worker[k].mesh = PoseFromIdentity(CenterOfCandidate(c), worker[k].angle)

C18_Witness ==
    \E k \in Workers :
        /\ worker[k].pc = "acquire"
        /\ worker[k].pos = 2
        /\ worker[k].i - 1 \in Elements(worker[k].checked_indices)
        /\ ~Flagged(k)
        /\ worker[k].projs = <<PoseFromIdentity(0, worker[k].angle)>>
        /\ worker[k].mesh = PoseFromIdentity(0, worker[k].angle)

\* C19: when the unperturbed projection of a flagged angle has a NaN
\* maximum and a shifted candidate has not, the candidate chosen, which is
\* the one written and whose maximum becomes the baseline, has a maximum
\* that is not NaN.
C19_ValidCandidateKept ==
    \A k \in Workers :
        (/\ Selected(k)
         /\ Flagged(k)
         /\ IsNaN(worker[k].max_vals[1])
         /\ \E j \in 2 .. Len(worker[k].max_vals) : ~IsNaN(worker[k].max_vals[j]))
            => ~IsNaN(worker[k].max_vals[worker[k].best + 1])

\* C20: the baseline `last` of a worker is never NaN.
C20_BaselineNeverNaN ==
    \A k \in Workers : ~IsNaN(worker[k].last)

=============================================================================
